---------------------------- MODULE Spec2Model ----------------------------
(***************************************************************************)
(* A model of src/src/GraphVisualizer.tsx: the random graph generator      *)
(* (generateRandomGraph), one Fruchterman-Reingold step                    *)
(* (fruchtermanReingoldStep) and the React component that drives the       *)
(* steps from animation frames (GraphVisualizer).                          *)
(*                                                                         *)
(* Numbers.  The source computes in IEEE doubles.  Here every length       *)
(* (coordinate, force, displacement, k, temperature) is a fixed-point      *)
(* integer counting 1/Scale of a pixel.  Math.sqrt is the exact integer    *)
(* square root (rounded down), a quotient a*b/c is exact and rounded       *)
(* toward zero, and the cooling product t*0.95 is rounded to the nearest   *)
(* unit.  TLC's integers are 32 bits wide, so products are never formed    *)
(* directly when they could exceed that: MulDiv and Hypot compute the      *)
(* exact results from pieces that fit.                                     *)
(***************************************************************************)
EXTENDS Integers, Sequences, FiniteSets, TLC

VARIABLES
    \* ---- generateRandomGraph, run as a process (lines 18-47)
    gN, gE,          \* the arguments numVertices, numEdges
    gpc,             \* where the call is: "vertices", "while", "sampled", "done"
    gVertices,       \* const vertices
    gEdgeSet,        \* const edgeSet (the keys)
    gEdges,          \* const edges
    ga, gb,          \* const a, let b
    \* ---- fruchtermanReingoldStep as a function of its arguments (lines 50-107)
    sVertices, sEdges, sWidth, sHeight, sK, sTemperature,
    sBefore,         \* the vertices array as it was passed to the last call
    sReturn,         \* the last call's return value
    sCalls,          \* calls made so far
    \* ---- the GraphVisualizer component (lines 114-247)
    vertices, edges, running, iteration, temperature, maxMove,   \* useState
    pending,         \* state updates queued by callbacks, not yet rendered
    frames,          \* animation-frame callbacks requested and neither run nor cancelled
    stale,           \* history: frames that fired before their step was rendered
    stepsRun         \* history: calls of fruchtermanReingoldStep since the last reset

genVars == <<gN, gE, gpc, gVertices, gEdgeSet, gEdges, ga, gb>>
stepVars == <<sVertices, sEdges, sWidth, sHeight, sK, sTemperature, sBefore, sReturn, sCalls>>
uiVars == <<vertices, edges, running, iteration, temperature, maxMove, pending, frames, stale, stepsRun>>
vars == <<genVars, stepVars, uiVars>>

(***************************************************************************)
(* Fixed-point arithmetic                                                  *)
(***************************************************************************)
Scale == 1000                \* units per pixel; 0.01 is EPS units

Abs(a) == IF a < 0 THEN -a ELSE a
Sign(a) == IF a < 0 THEN -1 ELSE 1
Min(a, b) == IF a < b THEN a ELSE b
Max(a, b) == IF a > b THEN a ELSE b

\* <<q, r>> with a*b = q*c + r and 0 <= r < c, for a, b >= 0 and 0 < c < 2^29,
\* by long multiplication over the digits of b (base 1024 while c < 2^20, else
\* base 2): no intermediate value exceeds 3*c, 2^31 or the result.
RECURSIVE MulDivQR(_, _, _)
MulDivQR(a, b, c) ==
    IF a = 0 \/ b = 0 \/ c = 0 THEN <<0, 0>>
    ELSE LET base == IF c < 1048576 THEN 1024 ELSE 2
             h == MulDivQR(a, b \div base, c)
             t == base * h[2] + (a % c) * (b % base)
         IN  <<base * h[1] + (a \div c) * (b % base) + t \div c, t % c>>

\* a*b/c rounded toward zero, c > 0.  Exact for c < 2^29; a larger c (a force
\* of more than half a million pixels) is first reduced, with a, by a factor 4.
RECURSIVE MulDiv(_, _, _)
MulDiv(a, b, c) ==
    IF c >= 536870912 THEN MulDiv(Sign(a) * (Abs(a) \div 4), b, c \div 4)
    ELSE LET x == Abs(a)
             y == Abs(b)
             q == IF x <= y THEN MulDivQR(y, x, c)[1] ELSE MulDivQR(x, y, c)[1]
         IN  Sign(a) * Sign(b) * q

RECURSIVE SqrtIter(_, _)
SqrtIter(n, x) ==
    LET y == (x + n \div x) \div 2
    IN  IF y >= x THEN x ELSE SqrtIter(n, y)

\* Math.sqrt of an integer that fits, rounded down
ISqrt(n) ==
    IF n = 0 THEN 0
    ELSE SqrtIter(n, IF n < 1024 THEN 32
                     ELSE IF n < 65536 THEN 256
                     ELSE IF n < 4194304 THEN 2048
                     ELSE IF n < 268435456 THEN 16384
                     ELSE 46341)

RECURSIVE HypotIter(_, _, _)
HypotIter(x, y, h) ==
    LET p == MulDivQR(x, x, h)
        r == MulDivQR(y, y, h)
        q == p[1] + r[1] + (p[2] + r[2]) \div h      \* (x*x + y*y) \div h
    IN  IF q >= h THEN h ELSE HypotIter(x, y, q + (h - q) \div 2)

\* Math.sqrt(a*a + b*b), rounded down.  Exact up to 2^20 units (1048 pixels, more
\* than the canvas diagonal); a longer vector is measured in units of s.
RECURSIVE Hypot(_, _)
Hypot(a, b) ==
    LET x == Abs(a)
        y == Abs(b)
        m == Max(x, y)
        s == m \div 32767 + 1
    IN  IF m <= 32767 THEN ISqrt(x * x + y * y)
        ELSE IF m < 1048576
        THEN HypotIter(x, y, s * (ISqrt((x \div s) * (x \div s) + (y \div s) * (y \div s)) + 3))
        ELSE (m \div 524288 + 1) * Hypot(x \div (m \div 524288 + 1), y \div (m \div 524288 + 1))

(***************************************************************************)
(* fruchtermanReingoldStep (lines 50-107)                                  *)
(***************************************************************************)
EPS == Scale \div 100                    \* the 0.01 added to every distance

\* The accumulators kept as they were passed in
ResetAccLeaky(v) == v
\* lines 61-62: v.dx = 0; v.dy = 0
ResetAcc(v) == [v EXCEPT !.dx = 0, !.dy = 0]

\* lines 65-70: what vertex u adds to v's accumulator, <<ddx, ddy>>.
\* (d/dist) * ((k*k)/dist) is formed as ((d*k)/dist) * k / dist so that the
\* force k*k/dist itself, which exceeds 32 bits at dist = EPS, is never formed.
RepulsionTerm(d, k, dist) ==
    LET p == MulDivQR(Abs(d), k, dist)
    IN  Sign(d) * (MulDiv(p[1], k, dist) + MulDiv(p[2], k, dist) \div dist)

Repulsion(v, u, k) ==
    IF u.id = v.id THEN <<0, 0>>
    ELSE LET dx == v.x - u.x
             dy == v.y - u.y
             dist == Hypot(dx, dy) + EPS
         IN  <<RepulsionTerm(dx, k, dist), RepulsionTerm(dy, k, dist)>>

\* lines 63-72: the inner loop over u: what the vertices from index j on add
RECURSIVE RepelSum(_, _, _, _)
RepelSum(v, vs, k, j) ==
    IF j > Len(vs) THEN <<0, 0>>
    ELSE LET f == Repulsion(v, vs[j], k)
             rest == RepelSum(v, vs, k, j + 1)
         IN  <<f[1] + rest[1], f[2] + rest[2]>>

\* lines 60-73: the outer loop over v, from index i on
RECURSIVE RepulsiveFrom(_, _, _)
RepulsiveFrom(vs, k, i) ==
    IF i > Len(vs) THEN <<>>
    ELSE LET f == RepelSum(vs[i], vs, k, 1)
         IN  <<[ResetAcc(vs[i]) EXCEPT !.dx = @ + f[1], !.dy = @ + f[2]]>>
             \o RepulsiveFrom(vs, k, i + 1)

RepulsivePhase(vs, k) == RepulsiveFrom(vs, k, 1)

\* lines 76-87: one edge.  force = dist*dist/k, fx = (dx/dist)*force = dx*dist/k
Attract(vs, e, k) ==
    LET v == vs[e.source + 1]
        u == vs[e.target + 1]
        dx == v.x - u.x
        dy == v.y - u.y
        dist == Hypot(dx, dy) + EPS
        fx == MulDiv(dx, dist, k)
        fy == MulDiv(dy, dist, k)
        vs1 == [vs EXCEPT ![e.source + 1].dx = @ - fx, ![e.source + 1].dy = @ - fy]
    IN  [vs1 EXCEPT ![e.target + 1].dx = @ + fx, ![e.target + 1].dy = @ + fy]

\* lines 75-88
RECURSIVE AttractivePhase(_, _, _, _)
AttractivePhase(vs, es, k, j) ==
    IF j > Len(es) THEN vs ELSE AttractivePhase(Attract(vs, es[j], k), es, k, j + 1)

\* line 94
Disp(v) == Hypot(v.dx, v.dy)

\* The displacement added without the limit
LimitNone(v, temp) == <<v.dx, v.dy>>
\* lines 92-98: the displacement added to the position, <<dx, dy>>
Limit(v, temp) ==
    LET disp == Disp(v)
    IN  IF disp > temp
        THEN <<MulDiv(v.dx, temp, disp), MulDiv(v.dy, temp, disp)>>
        ELSE <<v.dx, v.dy>>

\* The coordinate kept above 0 only
ClampLow(c, hi) == Max(0, c)
\* lines 102-103: Math.min(hi, Math.max(0, c))
Clamp(c, hi) == Min(hi, Max(0, c))

\* lines 99-103
Move(v, width, height, temp) ==
    LET d == Limit(v, temp)
    IN  [v EXCEPT !.x = Clamp(v.x + d[1], width), !.y = Clamp(v.y + d[2], height)]

\* line 104: the magnitude a vertex contributes to maxMove
Moved(v, temp) == Disp(v)

\* lines 90, 104: maxMove over the vertices from index j on
RECURSIVE MaxMoveFrom(_, _, _, _)
MaxMoveFrom(vs, temp, j, m) ==
    IF j > Len(vs) THEN m
    ELSE LET d == Moved(vs[j], temp)
         IN  MaxMoveFrom(vs, temp, j + 1, IF d > m THEN d ELSE m)

\* lines 91-105: the loop over v, from index i on
RECURSIVE MoveFrom(_, _, _, _, _)
MoveFrom(vs, width, height, temp, i) ==
    IF i > Len(vs) THEN <<>>
    ELSE <<Move(vs[i], width, height, temp)>> \o MoveFrom(vs, width, height, temp, i + 1)

\* The call: the vertices array as it is left, and the return value
fruchtermanReingoldStep(vs, es, width, height, k, temp) ==
    LET forces == AttractivePhase(RepulsivePhase(vs, k), es, k, 1)
    IN  [vertices |-> MoveFrom(forces, width, height, temp, 1),
         maxMove |-> MaxMoveFrom(forces, temp, 1, 0)]

(***************************************************************************)
(* generateRandomGraph (lines 18-47), as a process                         *)
(***************************************************************************)
MaxGenN == 3                 \* numVertices is drawn from 0..MaxGenN
MaxGenE == 3                 \* numEdges is drawn from 0..MaxGenE

\* The positions Math.random() * 800, Math.random() * 600 (lines 27-28) are drawn from
RandomPoints == {<<100 * Scale, 300 * Scale>>, <<700 * Scale, 300 * Scale>>}

\* Math.floor(Math.random() * numVertices), lines 37-39
RandomIndex(n) == IF n = 0 THEN {0} ELSE 0..(n - 1)

\* The key of the pair in the order sampled
EdgeKeyAsSampled(a, b) == <<a, b>>
\* line 40: the key of the pair, smaller id first
EdgeKey(a, b) == IF a < b THEN <<a, b>> ELSE <<b, a>>

\* lines 25-31
NewVertex(i, p) == [id |-> i, x |-> p[1], y |-> p[2], dx |-> 0, dy |-> 0]

\* n*(n-1)/2, the number of unordered pairs of distinct ids
MaxPairs(n) == (n * (n - 1)) \div 2

GenInit ==
    /\ gN \in 0..MaxGenN
    /\ gE \in 0..MaxGenE
    /\ gpc = "vertices"
    /\ gVertices = <<>>
    /\ gEdgeSet = {}
    /\ gEdges = <<>>
    /\ ga = 0
    /\ gb = 0

\* lines 23-35: the vertex loop, edgeSet and edges created
GenVertices ==
    /\ gpc = "vertices"
    /\ \E ps \in [1..gN -> RandomPoints] :
          gVertices' = [i \in 1..gN |-> NewVertex(i - 1, ps[i])]
    /\ gpc' = "while"
    /\ UNCHANGED <<gN, gE, gEdgeSet, gEdges, ga, gb>>
    /\ UNCHANGED <<stepVars, uiVars>>

\* lines 36-38: the loop test passes, a and b are sampled
GenSample ==
    /\ gpc = "while"
    /\ Len(gEdges) < gE
    /\ ga' \in RandomIndex(gN)
    /\ gb' \in RandomIndex(gN)
    /\ gpc' = "sampled"
    /\ UNCHANGED <<gN, gE, gVertices, gEdgeSet, gEdges>>
    /\ UNCHANGED <<stepVars, uiVars>>

\* line 39: while (b === a) b = ...
GenResample ==
    /\ gpc = "sampled"
    /\ gb = ga
    /\ gb' \in RandomIndex(gN)
    /\ UNCHANGED <<gN, gE, gpc, gVertices, gEdgeSet, gEdges, ga>>
    /\ UNCHANGED <<stepVars, uiVars>>

\* lines 40-44
GenAdd ==
    /\ gpc = "sampled"
    /\ gb # ga
    /\ IF EdgeKey(ga, gb) \notin gEdgeSet
       THEN /\ gEdgeSet' = gEdgeSet \cup {EdgeKey(ga, gb)}
            /\ gEdges' = Append(gEdges, [source |-> ga, target |-> gb])
       ELSE UNCHANGED <<gEdgeSet, gEdges>>
    /\ gpc' = "while"
    /\ UNCHANGED <<gN, gE, gVertices, ga, gb>>
    /\ UNCHANGED <<stepVars, uiVars>>

\* lines 36, 46: the loop test fails, return { vertices, edges }
GenReturn ==
    /\ gpc = "while"
    /\ ~(Len(gEdges) < gE)
    /\ gpc' = "done"
    /\ UNCHANGED <<gN, gE, gVertices, gEdgeSet, gEdges, ga, gb>>
    /\ UNCHANGED <<stepVars, uiVars>>

GenNext == GenVertices \/ GenSample \/ GenResample \/ GenAdd \/ GenReturn

\* The graphs a call generateRandomGraph(n, e) can return
SamePair(p, q) == (p[1] = q[1] /\ p[2] = q[2]) \/ (p[1] = q[2] /\ p[2] = q[1])
OrientedPairs(n) == {p \in (0..(n - 1)) \X (0..(n - 1)) : p[1] # p[2]}
EdgeLists(n, e) ==
    {[i \in 1..e |-> [source |-> ps[i][1], target |-> ps[i][2]]] :
        ps \in {qs \in [1..e -> OrientedPairs(n)] :
                   \A i, j \in 1..e : i < j => ~SamePair(qs[i], qs[j])}}
VertexLists(n) == {[i \in 1..n |-> NewVertex(i - 1, ps[i])] : ps \in [1..n -> RandomPoints]}
generateRandomGraph(n, e) ==
    {[vertices |-> vs, edges |-> es] : vs \in VertexLists(n), es \in EdgeLists(n, e)}

(***************************************************************************)
(* fruchtermanReingoldStep called on arbitrary arguments                   *)
(***************************************************************************)
MaxStepV == 2                \* at most this many vertices are passed
MaxStepE == 1                \* at most this many edges are passed
MaxCalls == 2                \* the function is called at most this many times in a row

\* The arguments are drawn from these: a 4 x 3 canvas and the component's canvas,
\* points inside, on the border of and outside the small canvas
StepCanvases == {<<4 * Scale, 3 * Scale>>, <<800 * Scale, 600 * Scale>>}
StepPoints == {<<0, 0>>, <<0 - 1500, 1000>>, <<2500, 3 * Scale>>, <<5 * Scale, 3500>>}
StepKs == {Scale, 126491}
StepTemperatures == {Scale \div 2, 100 * Scale}
StepLeftovers == {0, 777}    \* what dx, dy hold when the array is passed

StepArgs(n, e) ==
    {[vertices |-> [i \in 1..n |-> [id |-> i - 1, x |-> ps[i][1], y |-> ps[i][2],
                                    dx |-> g, dy |-> 0 - g]],
      edges |-> es] :
        ps \in [1..n -> StepPoints], g \in StepLeftovers, es \in EdgeLists(n, e)}

StepInit ==
    /\ \E n \in 0..MaxStepV, e \in 0..MaxStepE :
          /\ e <= MaxPairs(n)
          /\ \E a \in StepArgs(n, e) :
                /\ sVertices = a.vertices
                /\ sEdges = a.edges
                /\ sBefore = a.vertices
    /\ \E c \in StepCanvases : sWidth = c[1] /\ sHeight = c[2]
    /\ sK \in StepKs
    /\ sTemperature \in StepTemperatures
    /\ sReturn = 0
    /\ sCalls = 0

\* One call: the array is mutated in place, the return value kept
StepCall ==
    /\ sCalls < MaxCalls
    /\ LET r == fruchtermanReingoldStep(sVertices, sEdges, sWidth, sHeight, sK, sTemperature)
       IN  /\ sVertices' = r.vertices
           /\ sReturn' = r.maxMove
    /\ sBefore' = sVertices
    /\ sCalls' = sCalls + 1
    /\ UNCHANGED <<sEdges, sWidth, sHeight, sK, sTemperature>>
    /\ UNCHANGED <<genVars, uiVars>>

(***************************************************************************)
(* The GraphVisualizer component (lines 109-247)                           *)
(*                                                                         *)
(* React keeps the state of the last render; a setState call queues an     *)
(* update, and the next render applies the queued updates in order, runs   *)
(* the animation effect's cleanup and then the effect again (every batch   *)
(* queued here replaces the vertices array or flips running, so the        *)
(* effect's dependencies always differ).  The step callback reads the      *)
(* vertices, edges and temperature of the render that created it, which    *)
(* are those of the last render.  A click is a discrete event: React       *)
(* renders and runs the effects before the handler's task ends, so a click *)
(* and its render are one action.  The updates of an animation-frame       *)
(* callback are rendered in a later task, and the frame it requested may   *)
(* fire before that task.                                                  *)
(***************************************************************************)
WIDTH == 800
HEIGHT == 600
NUM_VERTICES == 2            \* 30 in the source; the model's graphs are this small
NUM_EDGES == 1               \* 60 in the source
InitialTemperature == 100    \* useState(100), setTemperature(100)
MaxIter == 93                \* Resume is not clicked any more once iteration reaches this
MaxStale == 1                \* frames that fire before the previous step was rendered

\* The temperature left as it is
CoolNot(t) == t
\* line 146: t * 0.95, rounded to the nearest unit
Cool(t) == (t * 95 + 50) \div 100

\* The stop test with both conditions required
StopBoth(move, temp) == move < Scale \div 2 /\ temp < Scale
\* line 148: move < 0.5 || temperature < 1
Stop(move, temp) == move < Scale \div 2 \/ temp < Scale

\* Math.sqrt of a product that does not fit: the largest h with h*h <= a*b
RECURSIVE SqrtProdIter(_, _, _)
SqrtProdIter(a, b, h) ==
    LET q == MulDivQR(a, b, h)[1]
    IN  IF q >= h THEN h ELSE SqrtProdIter(a, b, q + (h - q) \div 2)
SqrtProd(a, b) == SqrtProdIter(a, b, Max(a, b))

\* line 140: Math.sqrt((WIDTH * HEIGHT) / NUM_VERTICES)
IdealK == SqrtProd(MulDiv(WIDTH * HEIGHT, Scale, NUM_VERTICES), Scale)

\* One queued update: a value to set, or an updater function to apply
Set(what, val) == [what |-> what, fn |-> "set", val |-> val]
Update(what, fn) == [what |-> what, fn |-> fn, val |-> 0]

\* The state after one queued update
Apply(st, u) ==
    IF u.what = "vertices" THEN [st EXCEPT !.vertices = u.val]
    ELSE IF u.what = "edges" THEN [st EXCEPT !.edges = u.val]
    ELSE IF u.what = "maxMove" THEN [st EXCEPT !.maxMove = u.val]
    ELSE IF u.what = "iteration"
    THEN [st EXCEPT !.iteration = IF u.fn = "increment" THEN @ + 1 ELSE u.val]
    ELSE IF u.what = "temperature"
    THEN [st EXCEPT !.temperature = IF u.fn = "cool" THEN Cool(@) ELSE u.val]
    ELSE [st EXCEPT !.running = IF u.fn = "toggle" THEN ~@ ELSE u.val]

RECURSIVE ApplyAll(_, _, _)
ApplyAll(st, us, j) == IF j > Len(us) THEN st ELSE ApplyAll(Apply(st, us[j]), us, j + 1)

\* The state of the last render, and that of a render of the updates us
Rendered ==
    [vertices |-> vertices, edges |-> edges, running |-> running,
     iteration |-> iteration, temperature |-> temperature, maxMove |-> maxMove]
NextRender(us) == ApplyAll(Rendered, us, 1)

\* A cleanup that cancels nothing
CleanupKeeps(f) == f
\* line 155: the cleanup's cancelAnimationFrame(frame); f callbacks were outstanding
Cleanup(f) == IF f > 0 THEN f - 1 ELSE 0

\* lines 134-157: a render commits st; the cleanup of the last effect runs, then the effect
Commit(st) ==
    /\ vertices' = st.vertices
    /\ edges' = st.edges
    /\ running' = st.running
    /\ iteration' = st.iteration
    /\ temperature' = st.temperature
    /\ maxMove' = st.maxMove
    /\ pending' = <<>>
    /\ frames' = Cleanup(frames) + (IF st.running THEN 1 ELSE 0)

\* lines 125-130 and 218-223: the updates that install a new graph
NewGraph(g) ==
    <<Set("vertices", g.vertices), Set("edges", g.edges), Set("iteration", 0),
      Set("temperature", InitialTemperature * Scale), Set("running", TRUE)>>

\* The component is mounted: the first render (lines 116-121) is committed and both
\* effects have run, the first queueing a graph, the second requesting a frame
UIInit ==
    /\ vertices = <<>>
    /\ edges = <<>>
    /\ running = TRUE
    /\ iteration = 0
    /\ temperature = InitialTemperature * Scale
    /\ maxMove = 0
    /\ \E g \in generateRandomGraph(NUM_VERTICES, NUM_EDGES) : pending = NewGraph(g)
    /\ frames = 1
    /\ stale = 0
    /\ stepsRun = 0

\* lines 137-153: an animation frame runs the step callback
FrameFires ==
    /\ frames > 0
    /\ IF Len(vertices) = 0
       THEN /\ frames' = frames - 1
            /\ UNCHANGED <<pending, stale, stepsRun>>
       ELSE /\ stepsRun < MaxIter + MaxStale
            /\ pending = <<>> \/ stale < MaxStale
            /\ LET r == fruchtermanReingoldStep(vertices, edges, WIDTH * Scale, HEIGHT * Scale,
                                                IdealK, temperature)
                   stop == Stop(r.maxMove, temperature)
               IN  /\ pending' = pending \o
                          <<Set("vertices", r.vertices), Update("iteration", "increment"),
                            Update("temperature", "cool"), Set("maxMove", r.maxMove)>> \o
                          (IF stop THEN <<Set("running", FALSE)>> ELSE <<>>)
                   /\ frames' = frames - 1 + (IF stop THEN 0 ELSE 1)
            /\ stale' = stale + (IF pending = <<>> THEN 0 ELSE 1)
            /\ stepsRun' = stepsRun + 1
    /\ UNCHANGED <<vertices, edges, running, iteration, temperature, maxMove>>
    /\ UNCHANGED <<genVars, stepVars>>

\* React renders the queued updates
Render ==
    /\ pending # <<>>
    /\ Commit(NextRender(pending))
    /\ UNCHANGED <<stale, stepsRun>>
    /\ UNCHANGED <<genVars, stepVars>>

\* line 235: the Pause/Resume button
ClickToggle ==
    /\ LET st == NextRender(pending \o <<Update("running", "toggle")>>)
       IN  /\ st.running => st.iteration < MaxIter
           /\ Commit(st)
    /\ UNCHANGED <<stale, stepsRun>>
    /\ UNCHANGED <<genVars, stepVars>>

\* lines 217-224, 238: the Reset button
ClickReset ==
    /\ \E g \in generateRandomGraph(NUM_VERTICES, NUM_EDGES) :
          Commit(NextRender(pending \o NewGraph(g)))
    /\ stepsRun' = 0
    /\ UNCHANGED stale
    /\ UNCHANGED <<genVars, stepVars>>

UINext == FrameFires \/ Render \/ ClickToggle \/ ClickReset

\* A run the user does not touch
RunNext == FrameFires \/ Render

(***************************************************************************)
(* Specifications                                                          *)
(***************************************************************************)
GenIdle ==
    /\ gN = 0 /\ gE = 0 /\ gpc = "idle" /\ gVertices = <<>>
    /\ gEdgeSet = {} /\ gEdges = <<>> /\ ga = 0 /\ gb = 0
StepIdle ==
    /\ sVertices = <<>> /\ sEdges = <<>> /\ sWidth = 0 /\ sHeight = 0 /\ sK = 0
    /\ sTemperature = 0 /\ sBefore = <<>> /\ sReturn = 0 /\ sCalls = 0
UIIdle ==
    /\ vertices = <<>> /\ edges = <<>> /\ running = FALSE /\ iteration = 0
    /\ temperature = 0 /\ maxMove = 0 /\ pending = <<>> /\ frames = 0
    /\ stale = 0 /\ stepsRun = 0

\* The component, with a user who clicks
Init == UIInit /\ GenIdle /\ StepIdle
Next == UINext
Spec == Init /\ [][Next]_vars

\* The component left alone: every requested frame fires unless it is cancelled,
\* and React renders every queued update.  FrameFairness is WF_vars(FrameFires) with
\* ENABLED <<FrameFires>>_vars written out as the guard of FrameFires.
FrameCanFire ==
    /\ frames > 0
    /\ Len(vertices) > 0 =>
          (stepsRun < MaxIter + MaxStale /\ (pending = <<>> \/ stale < MaxStale))
FrameFairness == []<>(~FrameCanFire) \/ []<><<FrameFires>>_vars
FairRun == Init /\ [][RunNext]_vars /\ FrameFairness /\ WF_vars(Render)

\* A call of generateRandomGraph
SpecGenInit == GenInit /\ StepIdle /\ UIIdle
SpecGen == SpecGenInit /\ [][GenNext]_vars

\* Calls of fruchtermanReingoldStep
SpecStepInit == StepInit /\ GenIdle /\ UIIdle
SpecStepNext == StepCall
SpecStep == SpecStepInit /\ [][SpecStepNext]_vars

(***************************************************************************)
(* Properties of generateRandomGraph, checked under SpecGen                *)
(***************************************************************************)
Started == gpc \in {"while", "sampled", "done"}

\* The process and the set generateRandomGraph(n, e) agree on what a call returns
GenReturnsListed ==
    gpc = "done" => [vertices |-> gVertices, edges |-> gEdges] \in generateRandomGraph(gN, gE)

\* C1: a call with numEdges > numVertices*(numVertices-1)/2 signals an error before
\* the sampling loop is entered and returns no graph: such a call never reaches the
\* loop test, the sampling or the return.
C1_InfeasibleIsRejected == gE > MaxPairs(gN) => ~Started

\* C2: at every point of the sampling loop and in the returned graph, every edge joins
\* two different ids of 0..numVertices-1, no two edges are the same unordered pair,
\* the vertex ids are 0..numVertices-1 in order, and the returned list has exactly
\* numEdges edges.
C2_EdgesValid ==
    Started =>
        /\ \A i \in 1..Len(gEdges) :
              /\ gEdges[i].source # gEdges[i].target
              /\ gEdges[i].source \in 0..(gN - 1)
              /\ gEdges[i].target \in 0..(gN - 1)
        /\ \A i, j \in 1..Len(gEdges) :
              i # j => {gEdges[i].source, gEdges[i].target} # {gEdges[j].source, gEdges[j].target}
        /\ Len(gVertices) = gN
        /\ \A i \in 1..Len(gVertices) : gVertices[i].id = i - 1
        /\ gpc = "done" => Len(gEdges) = gE

\* C2's case: a graph of at least two edges was returned, one of them sampled with the
\* larger id first
C2_Witness ==
    /\ gpc = "done"
    /\ gE >= 2
    /\ Len(gEdges) = gE
    /\ \E i \in 1..Len(gEdges) : gEdges[i].source > gEdges[i].target

(***************************************************************************)
(* Properties of fruchtermanReingoldStep, checked under SpecStep           *)
(***************************************************************************)
Called == sCalls > 0
Indices == 1..Len(sVertices)
InCanvas(v) == 0 <= v.x /\ v.x <= sWidth /\ 0 <= v.y /\ v.y <= sHeight
\* How far vertex i moved in the last call
MovedBy(i) == Hypot(sVertices[i].x - sBefore[i].x, sVertices[i].y - sBefore[i].y)
\* The last call's accumulated force on vertex i exceeded the temperature
Capped(i) == Disp(sVertices[i]) > sTemperature
SetMax(S) == IF S = {} THEN 0 ELSE CHOOSE m \in S : \A n \in S : n <= m

\* C3: after any call every vertex lies in [0, width] x [0, height], wherever the
\* vertices started and whatever the edges, k and temperature are.
C3_InsideCanvas == Called => \A i \in Indices : InCanvas(sVertices[i])

\* C3's case: a vertex that was strictly left of the right border was pushed past it
\* and sticks to it
C3_Witness ==
    /\ Called
    /\ \E i \in Indices :
          /\ sBefore[i].x < sWidth
          /\ sVertices[i].x = sWidth
          /\ sBefore[i].x + Limit(sVertices[i], sTemperature)[1] > sWidth

\* C4: in one call a vertex that started inside the canvas moves at most temperature
\* (up to one unit of rounding); when its displacement exceeded temperature and the
\* border did not stop it, it moves temperature (up to two units of rounding) in the
\* displacement's direction.
C4_MoveAtMostTemperature ==
    Called =>
        \A i \in Indices :
            InCanvas(sBefore[i]) =>
                /\ MovedBy(i) <= sTemperature + 1
                /\ (/\ Capped(i)
                    /\ 0 < sVertices[i].x /\ sVertices[i].x < sWidth
                    /\ 0 < sVertices[i].y /\ sVertices[i].y < sHeight) =>
                       /\ MovedBy(i) >= sTemperature - 2
                       /\ (sVertices[i].x - sBefore[i].x) * Sign(sVertices[i].dx) >= 0
                       /\ (sVertices[i].y - sBefore[i].y) * Sign(sVertices[i].dy) >= 0

\* C4's case: a displacement larger than the temperature was cut down to it
C4_Witness ==
    /\ Called
    /\ \E i \in Indices :
          /\ InCanvas(sBefore[i])
          /\ Capped(i)
          /\ Disp(sVertices[i]) > 2 * sTemperature
          /\ MovedBy(i) >= sTemperature - 2

\* C6 as claimed: the call returns the largest magnitude of the displacements that were
\* added to the positions, that is of the displacements after capping (up to two units
\* of rounding).
C6_ReturnsAddedDisplacement ==
    Called =>
        LET added == SetMax({Hypot(Limit(sVertices[i], sTemperature)[1],
                                   Limit(sVertices[i], sTemperature)[2]) : i \in Indices})
        IN  sReturn - added <= 2 /\ added - sReturn <= 2

\* What the call does return: the largest magnitude of the accumulated force vectors
\* (dx, dy) as they are before capping, and 0 when there is no vertex.
StepReturnsLargestForce ==
    Called =>
        /\ sReturn = SetMax({Hypot(sVertices[i].dx, sVertices[i].dy) : i \in Indices})
        /\ Len(sVertices) = 0 => sReturn = 0

\* The vertices vs with their accumulators cleared, and their positions alone
Cleared(vs) == [i \in 1..Len(vs) |-> [vs[i] EXCEPT !.dx = 0, !.dy = 0]]
Positions(vs) == [i \in 1..Len(vs) |-> <<vs[i].x, vs[i].y>>]

\* C7: the dx, dy a vertex holds when it is passed in do not reach the result: the
\* positions and the value returned are those of a call on the same vertices with
\* dx = dy = 0.
C7_AccumulatorsDoNotLeak ==
    Called =>
        LET r == fruchtermanReingoldStep(Cleared(sBefore), sEdges, sWidth, sHeight, sK, sTemperature)
        IN  /\ Positions(sVertices) = Positions(r.vertices)
            /\ sVertices = r.vertices
            /\ sReturn = r.maxMove

\* C7's case: the second call in a row, on vertices that hold the first call's forces
C7_Witness ==
    /\ sCalls = 2
    /\ \E i \in Indices : sBefore[i].dx # 0 /\ sBefore[i].dx # sVertices[i].dx
    /\ Positions(sVertices) # Positions(sBefore)

(***************************************************************************)
(* Properties of the component, checked under Spec and FairRun             *)
(***************************************************************************)
RECURSIVE CoolTimes(_, _)
CoolTimes(t, n) == IF n = 0 THEN t ELSE CoolTimes(Cool(t), n - 1)
Hot == InitialTemperature * Scale
\* A step callback has run since the last render
StepQueued == \E i \in 1..Len(pending) : pending[i].what = "maxMove"

\* The bounds of the model leave the program alone: no requested frame waits for
\* want of steps
FrameNeverHeldBack == (frames > 0 /\ Len(vertices) > 0) => stepsRun < MaxIter + MaxStale
\* A frame fires only where FrameCanFire says so
FrameFiresWhenItCan == [][FrameFires => FrameCanFire]_vars

\* C5: after 90 coolings from 100 the temperature is below 1; a run nobody interrupts
\* executes at most 91 steps (one more for each frame that fires before the previous
\* step is rendered) and then stops for good: running is false, no frame is requested
\* and no update is queued.
C5_RunStops ==
    /\ [](iteration >= 90 => temperature < Scale)
    /\ [](stepsRun <= 91 + MaxStale)
    /\ <>[](~running /\ frames = 0 /\ pending = <<>>)

\* C5's case: a run whose displacement never fell below the threshold was stopped by
\* the temperature
C5_Witness ==
    /\ ~running /\ frames = 0 /\ pending = <<>>
    /\ iteration >= 90
    /\ maxMove >= Scale \div 2
    /\ temperature < Scale

\* C8: the temperature is positive and is the initial 100 cooled once for each
\* executed step since the last reset; it strictly decreases whenever steps are
\* rendered, changes at no other time, and only Reset puts it back to 100.
C8_Cooling ==
    /\ [](/\ temperature > 0
          /\ temperature = CoolTimes(Hot, iteration)
          /\ NextRender(pending).iteration = stepsRun
          /\ NextRender(pending).temperature = CoolTimes(Hot, stepsRun))
    /\ [][/\ iteration' > iteration => temperature' < temperature
          /\ temperature' < temperature => iteration' > iteration
          /\ temperature' > temperature => (temperature' = Hot /\ iteration' = 0)]_vars

\* C8's case: several steps were rendered, one of them run by a frame that fired
\* before the step before it was rendered
C8_Witness ==
    /\ iteration >= 2
    /\ stepsRun = iteration
    /\ 0 < temperature /\ temperature < Cool(Hot)
    /\ stale > 0

\* C9: when a step callback has run, no further frame is requested exactly if the
\* step returned less than 0.5 or the temperature after that step's cooling is below 1.
C9_StopsOnEitherCondition ==
    StepQueued =>
        LET st == NextRender(pending)
        IN  frames = 0 <=> (st.maxMove < Scale \div 2 \/ st.temperature < Scale)

\* C10: at most one frame is requested at any time; while running is false no frame
\* is requested and no update is queued, so no step executes and positions,
\* temperature and iteration stay as they are until Resume or Reset.
C10_NoStepWhilePaused ==
    /\ [](frames <= 1)
    /\ [](~running => (frames = 0 /\ pending = <<>>))
    /\ [][(~running /\ ~running') =>
            UNCHANGED <<vertices, edges, temperature, iteration, maxMove, stepsRun>>]_vars

\* C10's case: Pause was clicked in the middle of a run, cancelling the requested frame
C10_Witness ==
    /\ ~running
    /\ frames = 0
    /\ iteration > 0
    /\ temperature >= Scale
    /\ maxMove >= Scale \div 2

=============================================================================
